---- MODULE Spec2Model ----
(***************************************************************************)
(* A model of the amazon-fba-image-toolkit scripts:                        *)
(*   download_images_by_product.py  (slug, unique folder, per-row fetch)   *)
(*   export_product_metadata.py     (text/price helpers, sheet push)       *)
(*                                                                         *)
(* Text is modelled as a sequence of one-character strings, so that the    *)
(* string functions are computed character by character as the code does.  *)
(***************************************************************************)
EXTENDS Integers, Sequences, FiniteSets, TLC

VARIABLES
  fs,        \* names of the entries that exist directly under OUT_ROOT
  root,      \* whether OUT_ROOT exists: "absent" | "present"
  files,     \* <<folder, i>> |-> the row (its place in rowlog) that wrote <folder>/<i>.webp
  idx,       \* 1-based index of the next line of the current run
  pcMain,    \* position of the downloader's main(): "idle" | "loop"
  rowlog,    \* history: one record per line handed to process_line, over all runs
  callFn,    \* the pure function under call
  callArgs,  \* its arguments
  callRet,   \* its return value
  callPc,    \* "call" | "done"
  sheet,     \* the destination tab: NoTab, or [nrows, ncols, cells]
  sheet0,    \* history: the destination tab before main() of the exporter ran
  records,   \* the source records fetch_records() returned
  rows,      \* the rows given to push_to_sheet
  opLog,     \* history: the spreadsheet API calls made so far, in order
  pcPush     \* position of the exporter's main()

vars == <<fs, root, files, idx, pcMain, rowlog, callFn, callArgs, callRet, callPc,
          sheet, sheet0, records, rows, opLog, pcPush>>

pipelineVars == <<fs, root, files, idx, pcMain, rowlog>>
callVars == <<callFn, callArgs, callRet, callPc>>
sheetVars == <<sheet, sheet0, records, rows, opLog, pcPush>>

----------------------------------------------------------------------------
(* Bounds of the model *)

MaxSegs == 3
MaxSuffix == 3
MaxChain == 10
MaxRows == 2
MaxTextLen == 4
MaxLimit == 4
MaxPriceLen == 3
MaxCents == 120
MaxRecords == 2

----------------------------------------------------------------------------
(* Characters *)

\* one code point each; the ellipsis U+2026 is written as a token
Ellipsis == "U+2026"
Pound == "£"

LowerLetters == {"a", "b", "c", "d", "e", "f", "g", "i", "m", "o", "p", "r", "s", "t", "u", "v", "w", "é"}
UpperLetters == {"A", "B", "F", "É"}
Digits == {"0", "1", "2", "3", "4", "5", "6", "7", "8", "9"}

\* Python's str.isspace / the regex class \s
IsSpace(c) == c \in {" ", "\t"}

\* the regex class \w with re.UNICODE: letters, digits and the underscore
IsWord(c) == c \in LowerLetters \cup UpperLetters \cup Digits \cup {"_"}

\* str.lower() on one character
LowerChar(c) ==
  CASE c = "A" -> "a"
    [] c = "B" -> "b"
    [] c = "F" -> "f"
    [] c = "É" -> "é"
    [] OTHER -> c

----------------------------------------------------------------------------
(* String primitives of Python, on sequences of characters *)

Min(a, b) == IF a < b THEN a ELSE b

\* s[:n]
Take(s, n) == SubSeq(s, 1, Min(n, Len(s)))

\* s[n:] (0-based n)
Drop(s, n) == SubSeq(s, n + 1, Len(s))

\* the positions of s that hold a character outside set
Outside(s, set) == {i \in 1..Len(s) : s[i] \notin set}

\* str.lstrip(chars)
LStripSet(s, set) ==
  LET out == Outside(s, set) IN
    IF out = {} THEN <<>>
    ELSE SubSeq(s, CHOOSE i \in out : \A j \in out : i <= j, Len(s))

\* str.rstrip(chars)
RStripSet(s, set) ==
  LET out == Outside(s, set) IN
    IF out = {} THEN <<>>
    ELSE SubSeq(s, 1, CHOOSE i \in out : \A j \in out : i >= j)

\* str.strip(chars)
StripSet(s, set) == RStripSet(LStripSet(s, set), set)

Whitespace == {" ", "\t"}

\* str.strip()
Strip(s) == StripSet(s, Whitespace)

\* str.lower()
Lower(s) == [i \in 1..Len(s) |-> LowerChar(s[i])]

\* re.sub(<one or more of set>, <c>, s): every maximal run of characters of set
\* becomes c, that is, the first character of a run becomes c and the rest go
CollapseRuns(s, set, c) ==
  LET starts == SelectSeq([i \in 1..Len(s) |-> i],
                          LAMBDA i : ~(s[i] \in set /\ i > 1 /\ s[i - 1] \in set))
  IN [j \in 1..Len(starts) |-> IF s[starts[j]] \in set THEN c ELSE s[starts[j]]]

\* index of the first occurrence of c in s at or after i, 0 if none
IndexOf(s, c, i) ==
  LET hits == {j \in i..Len(s) : s[j] = c} IN
    IF hits = {} THEN 0 ELSE CHOOSE j \in hits : \A k \in hits : j <= k

\* str.split(sep) for a one-character sep: always at least one piece
RECURSIVE SplitOn(_, _)
SplitOn(s, sep) ==
  LET k == IndexOf(s, sep, 1) IN
    IF k = 0 THEN <<s>>
    ELSE <<SubSeq(s, 1, k - 1)>> \o SplitOn(Drop(s, k), sep)

\* sep.join(words)
RECURSIVE Join(_, _)
Join(words, sep) ==
  IF words = <<>> THEN <<>>
  ELSE IF Len(words) = 1 THEN words[1]
  ELSE words[1] \o sep \o Join(Tail(words), sep)

\* s * n
Rep(s, n) == [i \in 1..(IF n <= 0 THEN 0 ELSE n * Len(s)) |-> s[((i - 1) % Len(s)) + 1]]

----------------------------------------------------------------------------
(* download_images_by_product.short_title_slug *)

MAX_WORDS == 6
MAX_LEN == 48

Product == <<"p", "r", "o", "d", "u", "c", "t">>

short_title_slug(title, max_words, max_len) ==
  LET t1 == Strip(title)
      \* re.sub(r"[^\w\s-]", "", title): keep word characters, whitespace and dashes
      t2 == SelectSeq(t1, LAMBDA c : IsWord(c) \/ IsSpace(c) \/ c = "-")
      \* re.sub(r"\s+", " ", title).strip()
      t3 == Strip(CollapseRuns(t2, Whitespace, " "))
      words == Take(SplitOn(t3, " "), max_words)
      s1 == Lower(Join(words, <<"-">>))
      \* re.sub(r"-{2,}", "-", slug).strip("-")
      s2 == StripSet(CollapseRuns(s1, {"-"}, "-"), {"-"})
      s3 == RStripSet(Take(s2, max_len), {"-"})
  IN IF s3 # <<>> THEN s3 ELSE Product

----------------------------------------------------------------------------
(* The states in which a part of the program is not running *)

NoRet == [none |-> TRUE]
NoTab == [absent |-> TRUE]

PipelineIdle ==
  /\ fs = {}
  /\ root = "absent"
  /\ files = <<>>
  /\ idx = 0
  /\ pcMain = "off"
  /\ rowlog = <<>>

CallIdle ==
  /\ callFn = "none"
  /\ callArgs = <<>>
  /\ callRet = NoRet
  /\ callPc = "off"

SheetIdle ==
  /\ sheet = NoTab
  /\ sheet0 = NoTab
  /\ records = <<>>
  /\ rows = <<>>
  /\ opLog = <<>>
  /\ pcPush = "off"

----------------------------------------------------------------------------
(* Calls of short_title_slug with its default max_words and max_len *)

\* all concatenations of at most n pieces
RECURSIVE Concats(_, _)
Concats(pieces, n) ==
  IF n = 0 THEN {<<>>}
  ELSE LET shorter == Concats(pieces, n - 1)
       IN shorter \cup {p \o s : p \in pieces, s \in shorter}

SlugPieces ==
  {<<"a">>, <<"B">>, <<"2">>, <<" ">>, <<"\t">>, <<"-">>, <<"_">>, <<"!">>, <<"é">>,
   Rep(<<"a">>, MAX_LEN - 1),
   Join([i \in 1..MAX_WORDS |-> <<"c">>], <<" ">>)}

SlugTitles == Concats(SlugPieces, MaxSegs)

InitSlug ==
  /\ PipelineIdle
  /\ SheetIdle
  /\ callFn = "short_title_slug"
  /\ callArgs \in {<<t>> : t \in SlugTitles}
  /\ callRet = NoRet
  /\ callPc = "call"

SlugCall ==
  /\ callFn = "short_title_slug"
  /\ callPc = "call"
  /\ callRet' = short_title_slug(callArgs[1], MAX_WORDS, MAX_LEN)
  /\ callPc' = "done"
  /\ UNCHANGED <<callFn, callArgs, pipelineVars, sheetVars>>

NextSlug == SlugCall

SpecSlug == InitSlug /\ [][NextSlug]_vars

NoDoubleDash(s) == \A i \in 1..(Len(s) - 1) : ~(s[i] = "-" /\ s[i + 1] = "-")

\* C5: for every title, short_title_slug(title) with the defaults is non-empty,
\* matches [a-z0-9-]+, is at most 48 characters long, holds no two consecutive
\* dashes and neither starts nor ends with a dash.
C5_SlugWellFormed ==
  (callFn = "short_title_slug" /\ callPc = "done") =>
    /\ callRet # <<>>
    /\ \A i \in 1..Len(callRet) :
         callRet[i] \in {"a", "b", "c", "d", "e", "f", "g", "h", "i", "j", "k", "l", "m",
                         "n", "o", "p", "q", "r", "s", "t", "u", "v", "w", "x", "y", "z"}
                        \cup Digits \cup {"-"}
    /\ Len(callRet) <= 48
    /\ NoDoubleDash(callRet)
    /\ callRet[1] # "-"
    /\ callRet[Len(callRet)] # "-"

----------------------------------------------------------------------------
(* download_images_by_product.ensure_unique_folder *)

DigitChar(d) ==
  CASE d = 0 -> "0" [] d = 1 -> "1" [] d = 2 -> "2" [] d = 3 -> "3" [] d = 4 -> "4"
    [] d = 5 -> "5" [] d = 6 -> "6" [] d = 7 -> "7" [] d = 8 -> "8" [] d = 9 -> "9"

\* str(n) for n >= 0
RECURSIVE Str(_)
Str(n) == IF n < 10 THEN <<DigitChar(n)>> ELSE Str(n \div 10) \o <<DigitChar(n % 10)>>

\* f"{base_slug}-{attempt}"
Suffixed(base_slug, attempt) == base_slug \o <<"-">> \o Str(attempt)

\* the while loop: candidate.exists() is membership in the root's entries
RECURSIVE probe(_, _, _, _)
probe(entries, base_slug, attempt, candidate) ==
  IF candidate \in entries
  THEN probe(entries, base_slug, attempt + 1, Suffixed(base_slug, attempt + 1))
  ELSE candidate

\* a variant that probes one suffix only
ensure_unique_folder_once(entries, base_slug) ==
  IF base_slug \in entries THEN Suffixed(base_slug, 2) ELSE base_slug

ensure_unique_folder(entries, base_slug) == probe(entries, base_slug, 1, base_slug)

----------------------------------------------------------------------------
(* Calls of ensure_unique_folder on a root that holds any set of entries *)

UniqueBases == {<<"f">>, <<"f", "-", "2">>}

\* base, base-2, ..., base-k (nothing for k = 0)
Chain(base, k) ==
  IF k = 0 THEN {} ELSE {base} \cup {Suffixed(base, n) : n \in 2..k}

Scattered == UniqueBases \cup {Suffixed(b, n) : b \in UniqueBases, n \in 2..MaxSuffix}

InitUnique ==
  /\ root = "present" /\ files = <<>> /\ idx = 0 /\ pcMain = "off" /\ rowlog = <<>>
  /\ SheetIdle
  /\ \E b \in UniqueBases, k \in 0..MaxChain, extra \in SUBSET Scattered :
       fs = Chain(b, k) \cup extra
  /\ callFn = "ensure_unique_folder"
  /\ callArgs \in {<<b>> : b \in UniqueBases}
  /\ callRet = NoRet
  /\ callPc = "call"

UniqueCall ==
  /\ callFn = "ensure_unique_folder"
  /\ callPc = "call"
  /\ callRet' = ensure_unique_folder(fs, callArgs[1])
  /\ callPc' = "done"
  /\ UNCHANGED <<callFn, callArgs, pipelineVars, sheetVars>>

NextUnique == UniqueCall

SpecUnique == InitUnique /\ [][NextUnique]_vars

\* C1: ensure_unique_folder never returns a path that exists at call time; it returns
\* base when base does not exist, and base-(N+1) when base, base-2, ..., base-N exist
\* and base-(N+1) does not.
C1_UniqueFolderFresh ==
  (callFn = "ensure_unique_folder" /\ callPc = "done") =>
    LET base == callArgs[1] IN
      /\ callRet \notin fs
      /\ base \notin fs => callRet = base
      /\ \A N \in 1..(Cardinality(fs) + 1) :
           (Chain(base, N) \subseteq fs /\ Suffixed(base, N + 1) \notin fs)
             => callRet = Suffixed(base, N + 1)

\* three colliding entries, with other entries around them: the fourth name is returned
C1_Witness ==
  /\ callFn = "ensure_unique_folder" /\ callPc = "done"
  /\ Chain(callArgs[1], 3) \subseteq fs
  /\ Cardinality(fs) > 3
  /\ callRet = Suffixed(callArgs[1], 4)

----------------------------------------------------------------------------
(* download_images_by_product.process_line and main *)

NoDir == <<"(", "n", "o", "n", "e", ")">>
EmptyFiles == [k \in {} |-> 0]

\* what one URL's try block ends in: download_bytes raises, Image.open raises, the
\* mkdir/save raises, or the file is written.  Image.save leaves no file behind when
\* it fails.
Outcomes == {"ok", "fetch_error", "decode_error", "save_error"}

\* line.split("\t", 1)[0], or the whole line
UrlsPartOf(line) ==
  LET k == IndexOf(line, "\t", 1) IN IF k > 0 THEN SubSeq(line, 1, k - 1) ELSE line

\* f"{idx:03d}"
Pad3(i) == Rep(<<"0">>, 3 - Len(Str(i))) \o Str(i)

\* line.split("\t", 1)[1], or f"product-{idx:03d}"
TitleOf(line, i) ==
  LET k == IndexOf(line, "\t", 1) IN
    IF k > 0 THEN Drop(line, k) ELSE Product \o <<"-">> \o Pad3(i)

\* [u.strip() for u in urls_part.split(";") if u.strip()]
UrlsOf(line) ==
  LET parts == SplitOn(UrlsPartOf(line), ";")
      stripped == [j \in 1..Len(parts) |-> Strip(parts[j])]
  IN SelectSeq(stripped, LAMBDA u : u # <<>>)

\* the for loop over enumerate(urls, start=1): position i writes <out_dir>/<i>.webp
\* when its try block runs to the end, and the loop goes on whatever happened
RECURSIVE StoreAll(_, _, _, _, _, _)
StoreAll(fl, out_dir, n, outcomes, i, writer) ==
  IF i > n THEN fl
  ELSE LET key == <<out_dir, i>>
           written == [k \in DOMAIN fl \cup {key} |-> IF k = key THEN writer ELSE fl[k]]
       IN StoreAll(IF outcomes[i] = "ok" THEN written ELSE fl,
                   out_dir, n, outcomes, i + 1, writer)

\* a loop without the try/except: the first failure ends it
RECURSIVE StoreUntilFailure(_, _, _, _, _, _)
StoreUntilFailure(fl, out_dir, n, outcomes, i, writer) ==
  IF i > n \/ outcomes[i] # "ok" THEN fl
  ELSE LET key == <<out_dir, i>>
           written == [k \in DOMAIN fl \cup {key} |-> IF k = key THEN writer ELSE fl[k]]
       IN StoreUntilFailure(written, out_dir, n, outcomes, i + 1, writer)

\* process_line with the mkdir before the check for URLs
process_line_mkdir_first(entries, fl, line, i, outcomes, writer) ==
  LET title == TitleOf(line, i)
      out_dir == ensure_unique_folder(entries, short_title_slug(title, MAX_WORDS, MAX_LEN))
      urls == UrlsOf(line)
  IN [fs |-> entries \cup {out_dir},
      files |-> StoreAll(fl, out_dir, Len(urls), outcomes, 1, writer),
      row |-> [idx |-> i, title |-> title,
               out_dir |-> IF urls = <<>> THEN NoDir ELSE out_dir,
               n |-> Len(urls),
               ok |-> {j \in 1..Len(urls) : outcomes[j] = "ok"}]]

\* process_line that takes root/slug as it is, without ensure_unique_folder
process_line_no_probe(entries, fl, line, i, outcomes, writer) ==
  LET title == TitleOf(line, i)
      out_dir == short_title_slug(title, MAX_WORDS, MAX_LEN)
      urls == UrlsOf(line)
  IN IF urls = <<>>
     THEN [fs |-> entries, files |-> fl,
           row |-> [idx |-> i, title |-> title, out_dir |-> NoDir,
                    n |-> 0, ok |-> {}]]
     ELSE [fs |-> entries \cup {out_dir},
           files |-> StoreAll(fl, out_dir, Len(urls), outcomes, 1, writer),
           row |-> [idx |-> i, title |-> title, out_dir |-> out_dir,
                    n |-> Len(urls),
                    ok |-> {j \in 1..Len(urls) : outcomes[j] = "ok"}]]

\* process_line with a loop that stops at the first failure
process_line_no_try(entries, fl, line, i, outcomes, writer) ==
  LET title == TitleOf(line, i)
      out_dir == ensure_unique_folder(entries, short_title_slug(title, MAX_WORDS, MAX_LEN))
      urls == UrlsOf(line)
  IN IF urls = <<>>
     THEN [fs |-> entries, files |-> fl,
           row |-> [idx |-> i, title |-> title, out_dir |-> NoDir,
                    n |-> 0, ok |-> {}]]
     ELSE [fs |-> entries \cup {out_dir},
           files |-> StoreUntilFailure(fl, out_dir, Len(urls), outcomes, 1, writer),
           row |-> [idx |-> i, title |-> title, out_dir |-> out_dir,
                    n |-> Len(urls),
                    ok |-> {j \in 1..Len(urls) : outcomes[j] = "ok"}]]

\* process_line(line, idx) on a root holding `entries` and the files `fl`, with
\* outcomes[j] what the try block of the j-th non-empty URL ends in; `writer` marks
\* the files this call writes.  The result is the root afterwards and the row's
\* entry in the history.
process_line(entries, fl, line, i, outcomes, writer) ==
  LET title == TitleOf(line, i)
      slug == short_title_slug(title, MAX_WORDS, MAX_LEN)
      out_dir == ensure_unique_folder(entries, slug)
      urls == UrlsOf(line)
  IN IF urls = <<>>
     THEN [fs |-> entries, files |-> fl,
           row |-> [idx |-> i, title |-> title, out_dir |-> NoDir,
                    n |-> 0, ok |-> {}]]
     ELSE \* out_dir.mkdir(parents=True, exist_ok=True), then the loop
          [fs |-> entries \cup {out_dir},
           files |-> StoreAll(fl, out_dir, Len(urls), outcomes, 1, writer),
           row |-> [idx |-> i, title |-> title, out_dir |-> out_dir,
                    n |-> Len(urls),
                    ok |-> {j \in 1..Len(urls) : outcomes[j] = "ok"}]]

\* the URL parts and titles of the input file's lines
UrlParts == {<<" ", ";", " ">>, <<" ", "u", " ", ";">>, <<"u", ";", " ", ";", "v">>}

Titles == {<<"f">>, <<"f", " ", "2">>}

\* [ln.strip() for ln in f if ln.strip()]: the lines main() hands to process_line
Lines ==
  {l \in {Strip(u \o <<"\t">> \o t) : u \in UrlParts, t \in Titles}
           \cup {Strip(u) : u \in UrlParts} : l # <<>>}

\* before the first run OUT_ROOT may be absent, empty, or hold an entry already
Init ==
  /\ \/ root = "absent" /\ fs = {}
     \/ root = "present" /\ fs \in {{}, {<<"f">>}}
  /\ files = EmptyFiles
  /\ idx = 0
  /\ pcMain = "idle"
  /\ rowlog = <<>>
  /\ CallIdle
  /\ SheetIdle

\* main() up to the loop: OUT_ROOT.mkdir(parents=True, exist_ok=True), the input
\* file exists and is read
MainStart ==
  /\ pcMain = "idle"
  /\ root' = "present"
  /\ idx' = 1
  /\ pcMain' = "loop"
  /\ UNCHANGED <<fs, files, rowlog, callVars, sheetVars>>

\* main() when INPUT_FILE does not exist: OUT_ROOT is made and main() returns
MainNoInput ==
  /\ pcMain = "idle"
  /\ root' = "present"
  /\ UNCHANGED <<fs, files, idx, pcMain, rowlog, callVars, sheetVars>>

\* one iteration of main()'s loop: process_line(line, idx)
ProcessLine ==
  /\ pcMain = "loop"
  /\ Len(rowlog) < MaxRows
  /\ \E line \in Lines :
       \E outcomes \in [1..Len(UrlsOf(line)) -> Outcomes] :
         LET done == process_line(fs, files, line, idx, outcomes, Len(rowlog) + 1) IN
           /\ fs' = done.fs
           /\ files' = done.files
           /\ rowlog' = Append(rowlog, done.row)
  /\ idx' = idx + 1
  /\ UNCHANGED <<root, pcMain, callVars, sheetVars>>

\* the loop is over: main() prints its summary and returns
MainDone ==
  /\ pcMain = "loop"
  /\ pcMain' = "idle"
  /\ idx' = 0
  /\ UNCHANGED <<fs, root, files, rowlog, callVars, sheetVars>>

Next == MainStart \/ MainNoInput \/ ProcessLine \/ MainDone

Spec == Init /\ [][Next]_vars

GotFolder(k) == rowlog[k].out_dir # NoDir

\* C2: every row that gets an output folder gets one that no other row, of this run
\* or an earlier one, was given, and every image file is still the one written by the
\* row that owns its folder (none was overwritten by another row).
C2_FoldersNeverShared ==
  /\ \A j, k \in 1..Len(rowlog) :
       (j # k /\ GotFolder(j) /\ GotFolder(k)) => rowlog[j].out_dir # rowlog[k].out_dir
  /\ \A key \in DOMAIN files :
       \E k \in 1..Len(rowlog) :
         /\ rowlog[k].out_dir = key[1]
         /\ files[key] = k

\* a root that holds f already: a row titled "f" is given f-2 and stores a file,
\* and the first row of the next run, whose own slug is f-2, is given f-2-2
C2_Witness ==
  \E j, k \in 1..Len(rowlog) :
    /\ j < k /\ rowlog[k].idx = 1
    /\ rowlog[j].title = <<"f">>
    /\ rowlog[j].out_dir = <<"f", "-", "2">> /\ rowlog[j].ok # {}
    /\ rowlog[k].title = <<"f", " ", "2">>
    /\ rowlog[k].out_dir = <<"f", "-", "2", "-", "2">>

\* C3: for every processed row and every position i of its non-empty URLs,
\* <folder>/<i>.webp exists exactly when the URL at position i was fetched and
\* normalized successfully; a failure at one position stops neither the later
\* positions nor the later rows.
C3_FileIffSucceeded ==
  \A k \in 1..Len(rowlog) :
    GotFolder(k) =>
      /\ \A i \in 1..rowlog[k].n :
           (<<rowlog[k].out_dir, i>> \in DOMAIN files) <=> (i \in rowlog[k].ok)
      /\ \A key \in DOMAIN files : key[1] = rowlog[k].out_dir => key[2] \in 1..rowlog[k].n

\* a row whose first URL failed and whose second was stored, followed by a row that
\* was stored too
C3_Witness ==
  \E k \in 1..(Len(rowlog) - 1) :
    /\ rowlog[k].n = 2 /\ rowlog[k].ok = {2}
    /\ <<rowlog[k].out_dir, 2>> \in DOMAIN files
    /\ rowlog[k + 1].ok # {}

\* C4: a row with no non-empty URL leaves the root as it was (no folder, no file),
\* and the loop goes on to the next row.
C4_NoUrlsRowSkipped ==
  [][(Len(rowlog') = Len(rowlog) + 1 /\ rowlog'[Len(rowlog')].n = 0)
       => (fs' = fs /\ files' = files /\ pcMain' = "loop" /\ idx' = idx + 1)]_vars

\* a skipped row, after which the root is as it was before the run, followed by a
\* row of the same run that was given a folder
C4_Witness ==
  \E k \in 1..(Len(rowlog) - 1) :
    /\ rowlog[k].n = 0 /\ rowlog[k].out_dir = NoDir
    /\ GotFolder(k + 1)
    /\ rowlog[k + 1].idx = rowlog[k].idx + 1
    /\ fs = {rowlog[k + 1].out_dir}

----------------------------------------------------------------------------
(* export_product_metadata.trim_to_length *)

\* str.split(): the maximal runs of characters that are not whitespace
SplitWs(s) ==
  SelectSeq(SplitOn(CollapseRuns(s, Whitespace, " "), " "), LAMBDA w : w # <<>>)

\* the for loop: words are taken while total + extra <= limit - 1
RECURSIVE TakeWords(_, _, _, _)
TakeWords(words, limit, trimmed, total) ==
  IF words = <<>> THEN trimmed
  ELSE LET word == words[1]
           extra == IF trimmed = <<>> THEN Len(word) ELSE Len(word) + 1
       IN IF total + extra > limit - 1 THEN trimmed
          ELSE TakeWords(Tail(words), limit, Append(trimmed, word), total + extra)

TrailingPunctuation == {",", ".", ";", ":", "-"}

\* a loop that leaves no room for the marker: words are taken while they fit limit
RECURSIVE TakeWordsNoRoom(_, _, _, _)
TakeWordsNoRoom(words, limit, trimmed, total) ==
  IF words = <<>> THEN trimmed
  ELSE LET word == words[1]
           extra == IF trimmed = <<>> THEN Len(word) ELSE Len(word) + 1
       IN IF total + extra > limit THEN trimmed
          ELSE TakeWordsNoRoom(Tail(words), limit, Append(trimmed, word), total + extra)

trim_to_length_no_room(text, limit) ==
  LET t == Strip(text) IN
    IF Len(t) <= limit THEN t
    ELSE RStripSet(Join(TakeWordsNoRoom(SplitWs(t), limit, <<>>, 0), <<" ">>),
                   TrailingPunctuation) \o <<Ellipsis>>

trim_to_length(text, limit) ==
  LET t == Strip(text) IN
    IF Len(t) <= limit THEN t
    ELSE RStripSet(Join(TakeWords(SplitWs(t), limit, <<>>, 0), <<" ">>),
                   TrailingPunctuation) \o <<Ellipsis>>

----------------------------------------------------------------------------
(* Calls of trim_to_length *)

\* all strings of at most n characters of an alphabet
Strings(alphabet, n) == Concats({<<c>> : c \in alphabet}, n)

TrimTexts == Strings({"a", "b", " ", ","}, MaxTextLen)

InitTrim ==
  /\ PipelineIdle
  /\ SheetIdle
  /\ callFn = "trim_to_length"
  /\ callArgs \in {<<t, l>> : t \in TrimTexts, l \in 0..MaxLimit}
  /\ callRet = NoRet
  /\ callPc = "call"

TrimCall ==
  /\ callFn = "trim_to_length"
  /\ callPc = "call"
  /\ callRet' = trim_to_length(callArgs[1], callArgs[2])
  /\ callPc' = "done"
  /\ UNCHANGED <<callFn, callArgs, pipelineVars, sheetVars>>

NextTrim == TrimCall

SpecTrim == InitTrim /\ [][NextTrim]_vars

\* the result is the stripped text when that fits, and otherwise the first k words
\* of the text for some k, joined by single spaces, without trailing punctuation,
\* followed by the ellipsis
TrimShape(text, limit, ret) ==
  LET t == Strip(text)
      words == SplitWs(t)
  IN IF Len(t) <= limit THEN ret = t
     ELSE \E k \in 0..Len(words) :
            ret = RStripSet(Join(SubSeq(words, 1, k), <<" ">>), TrailingPunctuation)
                    \o <<Ellipsis>>

\* C8 as stated: for every text and every limit, the result has at most limit
\* characters; a text that fits is returned stripped and otherwise unchanged, and a
\* longer one is cut to whole words, trailing punctuation stripped, plus the ellipsis.
C8_Original ==
  (callFn = "trim_to_length" /\ callPc = "done") =>
    /\ Len(callRet) <= callArgs[2]
    /\ TrimShape(callArgs[1], callArgs[2], callRet)

\* C8 as amended: the same, with the length bound for every limit of at least 1.
C8_TrimWithinLimit ==
  (callFn = "trim_to_length" /\ callPc = "done") =>
    /\ callArgs[2] >= 1 => Len(callRet) <= callArgs[2]
    /\ TrimShape(callArgs[1], callArgs[2], callRet)

\* a text that does not fit, cut after its first word, where the word's comma is
\* stripped before the marker is put on
C8_Witness ==
  /\ callFn = "trim_to_length" /\ callPc = "done"
  /\ callArgs[1] = <<"a", ",", " ", "b">>
  /\ callArgs[2] = 3
  /\ callRet = <<"a", Ellipsis>>

----------------------------------------------------------------------------
(* export_product_metadata.normalise_price and best_price *)

\* The values a record's field can hold: None (the key is missing), a string, or a
\* number.  A number is held as its count of hundredths.
None == [t |-> "none"]
StrVal(s) == [t |-> "str", s |-> s]
NumVal(c) == [t |-> "num", cents |-> c]

DigitValue(c) ==
  CASE c = "0" -> 0 [] c = "1" -> 1 [] c = "2" -> 2 [] c = "3" -> 3 [] c = "4" -> 4
    [] c = "5" -> 5 [] c = "6" -> 6 [] c = "7" -> 7 [] c = "8" -> 8 [] c = "9" -> 9

\* int(digits), 0 for no digits
RECURSIVE IntOf(_)
IntOf(digits) ==
  IF digits = <<>> THEN 0
  ELSE 10 * IntOf(SubSeq(digits, 1, Len(digits) - 1)) + DigitValue(digits[Len(digits)])

AllDigits(s) == \A i \in 1..Len(s) : s[i] \in Digits

\* whether float(s) succeeds, for a stripped s of digits, dots and other characters:
\* digits with at most one dot and at least one digit
IsNumeric(s) ==
  LET k == IndexOf(s, ".", 1)
      whole == IF k = 0 THEN s ELSE SubSeq(s, 1, k - 1)
      frac == IF k = 0 THEN <<>> ELSE Drop(s, k)
  IN AllDigits(whole) /\ AllDigits(frac) /\ Len(whole) + Len(frac) >= 1

\* float(s) rounded to hundredths as f"{x:.2f}" rounds it; the third fractional
\* digit decides (the strings of the model hold no 5, so no value is a tie)
CentsOf(s) ==
  LET k == IndexOf(s, ".", 1)
      whole == IF k = 0 THEN s ELSE SubSeq(s, 1, k - 1)
      frac == IF k = 0 THEN <<>> ELSE Drop(s, k)
      padded == frac \o <<"0", "0", "0">>
  IN 100 * IntOf(whole) + 10 * DigitValue(padded[1]) + DigitValue(padded[2])
       + (IF DigitValue(padded[3]) >= 5 THEN 1 ELSE 0)

\* f"£{x:.2f}" for x = cents / 100
FormatPrice(cents) ==
  <<Pound>> \o Str(cents \div 100) \o <<".">>
    \o <<DigitChar((cents % 100) \div 10), DigitChar(cents % 10)>>

\* bool(value): None, "" and zero are false
Truthy(value) ==
  CASE value.t = "none" -> FALSE
    [] value.t = "str" -> value.s # <<>>
    [] value.t = "num" -> value.cents # 0

\* the result is a string
normalise_price(value) ==
  IF ~Truthy(value) THEN <<>>
  ELSE IF value.t = "num" THEN FormatPrice(value.cents)
  ELSE LET v == Strip(value.s) IN
         IF v = <<>> THEN <<>>
         ELSE IF v[1] = Pound THEN v
         ELSE IF IsNumeric(v) THEN FormatPrice(CentsOf(v))
         ELSE v

\* record.get(key)
Get(record, key) == IF key \in DOMAIN record THEN record[key] ELSE None

\* a or b or c on strings: the first that is not empty, else the last
best_price(record) ==
  \* the first key is "Buy Box <truck emoji>: Current" in the source
  LET buy_box == normalise_price(Get(record, "Buy Box: Current"))
      new == normalise_price(Get(record, "New: Current"))
  IN IF buy_box # <<>> THEN buy_box
     ELSE IF new # <<>> THEN new
     ELSE normalise_price(Get(record, "List Price: Current"))

----------------------------------------------------------------------------
(* Calls of normalise_price *)

PriceValues ==
  {None} \cup {NumVal(c) : c \in 0..MaxCents}
         \cup {StrVal(s) : s \in Strings({"0", "1", "9", ".", Pound, " ", "a"}, MaxPriceLen)}

InitPrice ==
  /\ PipelineIdle
  /\ SheetIdle
  /\ callFn = "normalise_price"
  /\ callArgs \in {<<v>> : v \in PriceValues}
  /\ callRet = NoRet
  /\ callPc = "call"

PriceCall ==
  /\ callFn = "normalise_price"
  /\ callPc = "call"
  /\ callRet' = normalise_price(callArgs[1])
  /\ callPc' = "done"
  /\ UNCHANGED <<callFn, callArgs, pipelineVars, sheetVars>>

NextPrice == PriceCall

SpecPrice == InitPrice /\ [][NextPrice]_vars

\* C9: a value that carries the pound prefix is passed through; every numeric value,
\* a number or a numeric string, zero included, is formatted to two decimal places
\* with the prefix; an unparseable string is passed through; only empty input gives
\* empty output.  (Strings are compared after the strip the function applies to them.)
C9_PriceMapping ==
  (callFn = "normalise_price" /\ callPc = "done") =>
    LET value == callArgs[1]
        v == IF value.t = "str" THEN Strip(value.s) ELSE <<>>
    IN /\ (value.t = "str" /\ v # <<>> /\ v[1] = Pound) => callRet = v
       /\ value.t = "num" => callRet = FormatPrice(value.cents)
       /\ (value.t = "str" /\ v # <<>> /\ v[1] # Pound /\ IsNumeric(v))
            => callRet = FormatPrice(CentsOf(v))
       /\ (value.t = "str" /\ v # <<>> /\ v[1] # Pound /\ ~IsNumeric(v)) => callRet = v
       /\ callRet = <<>> => (value.t = "none" \/ (value.t = "str" /\ v = <<>>))

----------------------------------------------------------------------------
(* export_product_metadata.build_rows *)

\* _as_str(value), for the text and missing cells of the model
AsStr(value) == IF value.t = "none" THEN <<>> ELSE value.s

ImagesSlash == <<"i", "m", "a", "g", "e", "s", "/">>
MainImageFile == <<"1", ".", "w", "e", "b", "p">>
SEO_LIMIT == 60

\* The row of one record: a dict, held as the sequence of its <<key, value>> pairs in
\* construction order.  Of the thirteen columns the model keeps the five below; the
\* others are texts composed from the same fields.
RowOf(record) ==
  LET title == Strip(AsStr(Get(record, "Title")))
      slug == short_title_slug(title, MAX_WORDS, MAX_LEN)
  IN << <<"Product Title", title>>,
        <<"SEO Title (<=60)", trim_to_length(title, SEO_LIMIT)>>,
        <<"Image Folder", ImagesSlash \o slug>>,
        <<"Main Image File", MainImageFile>>,
        <<"Price", best_price(record)>> >>

\* records without a title are skipped
build_rows(recs) ==
  LET kept == SelectSeq(recs, LAMBDA r : Strip(AsStr(Get(r, "Title"))) # <<>>)
  IN [i \in 1..Len(kept) |-> RowOf(kept[i])]

\* list(row.keys())
Keys(row) == [i \in 1..Len(row) |-> row[i][1]]

\* row[h]
Value(row, h) == row[CHOOSE i \in 1..Len(row) : row[i][1] = h][2]

----------------------------------------------------------------------------
(* export_product_metadata.push_to_sheet and main, and the worksheet they write *)

\* A worksheet is its size and its non-empty cells, <<row, column>> |-> text.
\* The text of a header cell is held as the one-element sequence of its key.
EmptyCells == [k \in {} |-> <<>>]
Blank(nr, nc) == [nrows |-> nr, ncols |-> nc, cells |-> EmptyCells]

\* a grid without the header row
grid_of_no_header(rs) ==
  LET headers == Keys(rs[1])
  IN [r \in 1..Len(rs) |-> [c \in 1..Len(headers) |-> Value(rs[r], headers[c])]]

\* data = [headers] + [[row[h] for h in headers] for row in rows]
grid_of(rs) ==
  LET headers == Keys(rs[1])
  IN <<[c \in 1..Len(headers) |-> <<headers[c]>>]>>
       \o [r \in 1..Len(rs) |-> [c \in 1..Len(headers) |-> Value(rs[r], headers[c])]]

\* worksheet.clear()
ws_clear(ws) == [ws EXCEPT !.cells = EmptyCells]

\* worksheet.resize(rows, cols): the cells outside the new size are dropped
ws_resize(ws, nr, nc) ==
  [nrows |-> nr, ncols |-> nc,
   cells |-> [k \in {x \in DOMAIN ws.cells : x[1] <= nr /\ x[2] <= nc} |-> ws.cells[k]]]

\* worksheet.update("A1", data): every cell of data is written from the top-left cell
ws_update(ws, data) ==
  LET area == {<<r, c>> : r \in 1..Len(data), c \in 1..Len(data[1])}
      filled == {k \in area : data[k[1]][k[2]] # <<>>}
      kept == DOMAIN ws.cells \ area
  IN [ws EXCEPT !.cells = [k \in kept \cup filled |->
                             IF k \in filled THEN data[k[1]][k[2]] ELSE ws.cells[k]]]

\* the destination tab before the run: absent, a fresh empty tab, a smaller tab and
\* a larger tab with contents
PriorSheets ==
  {NoTab,
   Blank(1000, 26),
   [nrows |-> 1, ncols |-> 2, cells |-> (<<1, 1>> :> <<"x">>) @@ (<<1, 2>> :> <<"y">>)],
   [nrows |-> 40, ncols |-> 12,
    cells |-> (<<1, 1>> :> <<"x">>) @@ (<<2, 3>> :> <<"y">>) @@ (<<30, 9>> :> <<"z">>)]}

\* the Title and the price cells of the source records
TitleCells ==
  {<<>>, "Title" :> StrVal(<<>>), "Title" :> StrVal(<<" ">>),
   "Title" :> StrVal(<<"f">>), "Title" :> StrVal(<<" ", "F", " ", "2">>)}

PriceCells ==
  {"Buy Box: Current" :> StrVal(<<>>),
   ("Buy Box: Current" :> NumVal(0)) @@ ("New: Current" :> StrVal(<<"9", ".", "9">>)),
   ("New: Current" :> StrVal(<<>>)) @@ ("List Price: Current" :> StrVal(<<Pound, "1">>))}

SourceRecords == {t @@ q : t \in TitleCells, q \in PriceCells}

\* all sequences of at most n elements of a set
RECURSIVE SeqsUpTo(_, _)
SeqsUpTo(set, n) ==
  IF n = 0 THEN {<<>>}
  ELSE LET shorter == SeqsUpTo(set, n - 1)
       IN shorter \cup {<<x>> \o q : x \in set, q \in {y \in shorter : Len(y) = n - 1}}

InitSheet ==
  /\ PipelineIdle
  /\ CallIdle
  /\ sheet \in PriorSheets
  /\ sheet0 = sheet
  /\ records \in SeqsUpTo(SourceRecords, MaxRecords)
  /\ rows = <<>>
  /\ opLog = <<>>
  /\ pcPush = "start"

\* fetch_records() when the credentials file is missing
ExportNoCreds ==
  /\ pcPush = "start"
  /\ pcPush' = "FileNotFoundError"
  /\ UNCHANGED <<sheet, sheet0, records, rows, opLog, pipelineVars, callVars>>

\* main(): records, spreadsheet = fetch_records(); rows = build_rows(records)
ExportBuild ==
  /\ pcPush = "start"
  /\ rows' = build_rows(records)
  /\ pcPush' = "push"
  /\ UNCHANGED <<sheet, sheet0, records, opLog, pipelineVars, callVars>>

\* a check that comes after the tab was looked up and cleared
PushCheckLate ==
  /\ pcPush = "push"
  /\ IF rows = <<>>
     THEN /\ sheet' = IF sheet = NoTab THEN Blank(20, 5) ELSE ws_clear(sheet)
          /\ opLog' = opLog \o <<"worksheet", "clear">>
          /\ pcPush' = "ValueError"
     ELSE /\ pcPush' = "lookup"
          /\ UNCHANGED <<sheet, opLog>>
  /\ UNCHANGED <<sheet0, records, rows, pipelineVars, callVars>>

\* push_to_sheet: if not rows: raise ValueError
PushCheck ==
  /\ pcPush = "push"
  /\ pcPush' = IF rows = <<>> THEN "ValueError" ELSE "lookup"
  /\ UNCHANGED <<sheet, sheet0, records, rows, opLog, pipelineVars, callVars>>

\* spreadsheet.worksheet(name), and add_worksheet with headroom when it is not found
PushLookup ==
  /\ pcPush = "lookup"
  /\ IF sheet # NoTab
     THEN /\ opLog' = Append(opLog, "worksheet")
          /\ UNCHANGED sheet
     ELSE /\ opLog' = opLog \o <<"worksheet", "add_worksheet">>
          /\ sheet' = Blank(Len(grid_of(rows)) + 20, Len(Keys(rows[1])) + 5)
  /\ pcPush' = "clear"
  /\ UNCHANGED <<sheet0, records, rows, pipelineVars, callVars>>

PushClear ==
  /\ pcPush = "clear"
  /\ sheet' = ws_clear(sheet)
  /\ opLog' = Append(opLog, "clear")
  /\ pcPush' = "resize"
  /\ UNCHANGED <<sheet0, records, rows, pipelineVars, callVars>>

PushResize ==
  /\ pcPush = "resize"
  /\ sheet' = ws_resize(sheet, Len(grid_of(rows)), Len(Keys(rows[1])))
  /\ opLog' = Append(opLog, "resize")
  /\ pcPush' = "update"
  /\ UNCHANGED <<sheet0, records, rows, pipelineVars, callVars>>

\* the last call; main() then prints its summary
PushUpdate ==
  /\ pcPush = "update"
  /\ sheet' = ws_update(sheet, grid_of(rows))
  /\ opLog' = Append(opLog, "update")
  /\ pcPush' = "done"
  /\ UNCHANGED <<sheet0, records, rows, pipelineVars, callVars>>

\* a call of the spreadsheet API raises: nothing catches it, the run ends there
ApiError ==
  /\ pcPush \in {"lookup", "clear", "resize", "update"}
  /\ pcPush' = "APIError"
  /\ UNCHANGED <<sheet, sheet0, records, rows, opLog, pipelineVars, callVars>>

NextSheet ==
  \/ ExportNoCreds
  \/ ExportBuild
  \/ PushCheck
  \/ PushLookup
  \/ PushClear
  \/ PushResize
  \/ PushUpdate
  \/ ApiError

SpecSheet == InitSheet /\ [][NextSheet]_vars

\* C6: when no source record has a title, the run ends in the error of push_to_sheet
\* at the latest, and the destination tab is never created, cleared, resized or
\* written: the spreadsheet stays as it was.
C6_EmptyPushTouchesNothing ==
  (pcPush # "off" /\ build_rows(records) = <<>>) =>
    /\ sheet = sheet0
    /\ opLog = <<>>
    /\ pcPush \in {"start", "push", "ValueError", "FileNotFoundError"}

\* records without titles, a tab with contents, and the push has raised
C6_Witness ==
  /\ pcPush = "ValueError"
  /\ Len(records) = 2
  /\ sheet0 # NoTab /\ sheet0.cells # EmptyCells
  /\ sheet = sheet0

\* C7: after a successful push the tab is exactly the new grid: the keys of the
\* first record in order, then one row per record in input order with its values in
\* that key order, at len(records)+1 rows by len(headers) columns, nothing else; and
\* the calls were lookup (or lookup and create), clear, resize, update, in this order.
C7_TabIsExactlyTheGrid ==
  pcPush = "done" =>
    LET headers == Keys(rows[1]) IN
      /\ rows # <<>>
      /\ sheet.nrows = Len(rows) + 1
      /\ sheet.ncols = Len(headers)
      /\ \A k \in DOMAIN sheet.cells : k[1] \in 1..sheet.nrows /\ k[2] \in 1..sheet.ncols
      /\ \A c \in 1..Len(headers) :
           /\ <<1, c>> \in DOMAIN sheet.cells
           /\ sheet.cells[<<1, c>>] = <<headers[c]>>
           /\ \A r \in 1..Len(rows) :
                LET v == Value(rows[r], headers[c]) IN
                  IF v = <<>> THEN <<r + 1, c>> \notin DOMAIN sheet.cells
                  ELSE /\ <<r + 1, c>> \in DOMAIN sheet.cells
                       /\ sheet.cells[<<r + 1, c>>] = v
      /\ opLog = (IF sheet0 = NoTab THEN <<"worksheet", "add_worksheet">>
                  ELSE <<"worksheet">>) \o <<"clear", "resize", "update">>

\* a push of two records over a larger tab with contents
C7_Witness ==
  /\ pcPush = "done"
  /\ Len(rows) = 2
  /\ sheet0 # NoTab /\ sheet0.nrows > sheet.nrows /\ sheet0.cells # EmptyCells
  /\ sheet.cells[<<3, 1>>] = <<"F", " ", "2">>

----------------------------------------------------------------------------
(* The two flows on the same rows *)

\* C10: for every row with a title and at least one URL, the Image Folder of its
\* metadata record, images/<slug(title)>, names the folder the downloader wrote that
\* row's images into, also when two rows' titles have the same slug.  (Stated for a
\* root that holds nothing but the folders of these rows.)
C10_ImageFolderIsRowFolder ==
  (\A d \in fs : \E j \in 1..Len(rowlog) : rowlog[j].out_dir = d) =>
    \A k \in 1..Len(rowlog) :
      (GotFolder(k) /\ rowlog[k].title \in Titles) =>
        Value(RowOf("Title" :> StrVal(rowlog[k].title)), "Image Folder")
          = ImagesSlash \o rowlog[k].out_dir

====
